---- MODULE Spec2Model ----
(***************************************************************************)
(* A model of infra-tools (src/main.rs): the DNS health-check runner that  *)
(* queries every name server for every name server's A record and, when a  *)
(* check fails, opens or bumps an "Outage Report" issue in the tracker.    *)
(*                                                                         *)
(* One execution of the program is a run.  The program is a scheduled job, *)
(* so the per-run state is indexed by a run identifier; the tracker is the *)
(* one piece of state that outlives a run and is shared by all runs.       *)
(***************************************************************************)
EXTENDS Integers, Sequences, FiniteSets, TLC

(***************************************************************************)
(* Bounds of the model.                                                    *)
(***************************************************************************)
MaxServers == 2      \* longest name-server inventory
MaxAnswers == 2      \* most answer records in one DNS response
MaxIssues  == 2      \* most issues in the tracker before a run
MaxRuns    == 2      \* run identifiers
MaxPosts   == 2      \* most issues and comments posted by successive runs

Runs == 1..MaxRuns

(***************************************************************************)
(* Program constants.                                                      *)
(***************************************************************************)
ISSUE_TITLE == "Outage Report"

DefaultRetries == 2

(***************************************************************************)
(* get_name_servers: the two hard-coded name servers.                      *)
(***************************************************************************)
ns1 == [address |-> "173.255.245.83", name |-> "ns1.rhiyo.com."]

ns2 == [address |-> "212.71.246.209", name |-> "ns2.rhiyo.com."]

get_name_servers == <<ns1, ns2>>

\* The inventories the model runs on: every ordered list of 1..MaxServers
\* entries drawn from the hard-coded servers (repetitions included), of
\* which get_name_servers is one.
Pool == {get_name_servers[i] : i \in 1..Len(get_name_servers)}

Inventories == UNION {[1..n -> Pool] : n \in 1..MaxServers}

(***************************************************************************)
(* get_checks: the nested loops, outer over the querying server, inner     *)
(* over the server whose record is requested.                              *)
(***************************************************************************)
\* Variant: the expected address taken from the querying server.
Check_ip_of_server(name_server, record_to_request) ==
    [name_server       |-> name_server,
     record_to_request |-> record_to_request.name,
     expected_ip       |-> name_server.address]

Check(name_server, record_to_request) ==
    [name_server       |-> name_server,
     record_to_request |-> record_to_request.name,
     expected_ip       |-> record_to_request.address]

RECURSIVE get_checks_inner(_, _, _)
get_checks_inner(name_server, rest, checks) ==
    IF rest = <<>> THEN checks
    ELSE get_checks_inner(name_server, Tail(rest),
                          Append(checks, Check(name_server, Head(rest))))

RECURSIVE get_checks_outer(_, _, _)
get_checks_outer(rest, name_servers, checks) ==
    IF rest = <<>> THEN checks
    ELSE get_checks_outer(Tail(rest), name_servers,
                          get_checks_inner(Head(rest), name_servers, checks))

get_checks(name_servers) == get_checks_outer(name_servers, name_servers, <<>>)

(***************************************************************************)
(* DNS: what a name server may send back.  A record is an A record with an *)
(* address or a record of another type; a response carries 0..MaxAnswers   *)
(* answer records.                                                         *)
(***************************************************************************)
Addresses == {ns.address : ns \in Pool}

Records == [rtype : {"A"}, rdata : Addresses]
           \cup {[rtype |-> "AAAA", rdata |-> "::1"]}

AnswerLists == UNION {[1..n -> Records] : n \in 0..MaxAnswers}

NoResponse == [answers |-> <<>>, valid |-> FALSE]

DnsResponse(answers) == [answers |-> answers, valid |-> TRUE]

\* Variant: the answer compared with the address of the queried server.
inspect_answers_vs_server(check, answers) ==
    IF Len(answers) = 0 THEN "panic"
    ELSE IF answers[1].rtype = "A"
         THEN IF answers[1].rdata = check.name_server.address THEN "Ok" ELSE "Err"
         ELSE "Err"

\* Variant: any answer record may match, not the first only.
inspect_answers_any_record(check, answers) ==
    IF Len(answers) = 0 THEN "panic"
    ELSE IF \E i \in 1..Len(answers) :
               answers[i].rtype = "A" /\ answers[i].rdata = check.expected_ip
         THEN "Ok"
         ELSE "Err"

\* perform_check, lines 160-170: the verdict on a response's answers.
\* answers[0] on an empty slice is an index-out-of-bounds panic.
inspect_answers(check, answers) ==
    IF Len(answers) = 0 THEN "panic"
    ELSE IF answers[1].rtype = "A"
         THEN IF answers[1].rdata = check.expected_ip THEN "Ok" ELSE "Err"
         ELSE "Err"

(***************************************************************************)
(* main, lines 35-47: the `failed` flag and the branch on it.              *)
(***************************************************************************)
is_err(result) == result = "Err"

\* Variant: Iterator::all in place of Iterator::any.
RECURSIVE all_err(_)
all_err(results) ==
    IF results = <<>> THEN TRUE
    ELSE IF is_err(Head(results)[2]) THEN all_err(Tail(results))
    ELSE FALSE

\* Iterator::any over the results: stops at the first Err.
RECURSIVE any_err(_)
any_err(results) ==
    IF results = <<>> THEN FALSE
    ELSE IF is_err(Head(results)[2]) THEN TRUE
    ELSE any_err(Tail(results))

\* Variant: the tracker is visited whatever the results.
after_checks_always_issue(is_failed) == "make_issue"

\* Where main goes once `failed` is known.
after_checks(is_failed) == IF is_failed THEN "make_issue" ELSE "exit_ok"

(***************************************************************************)
(* perform_query_with_retries, lines 180-184: the match on the query's     *)
(* result and the remaining retries.                                       *)
(***************************************************************************)
\* Variant: the last retry is never used.
match_query_gives_up_early(res, n) ==
    IF res.valid THEN [kind |-> "Ok", retries |-> n]
    ELSE IF n <= 1 THEN [kind |-> "Err", retries |-> n]
    ELSE [kind |-> "Retry", retries |-> n - 1]

\* Variant: the recursive call passes retries on undiminished.
match_query_keeps_retries(res, n) ==
    IF res.valid THEN [kind |-> "Ok", retries |-> n]
    ELSE IF n = 0 THEN [kind |-> "Err", retries |-> n]
    ELSE [kind |-> "Retry", retries |-> n]

match_query(res, n) ==
    IF res.valid THEN [kind |-> "Ok", retries |-> n]
    ELSE IF n = 0 THEN [kind |-> "Err", retries |-> n]
    ELSE [kind |-> "Retry", retries |-> n - 1]

(***************************************************************************)
(* format_check_results: the report posted to the tracker.                 *)
(***************************************************************************)
\* Variant: the two words exchanged.
format_line_swapped(check, result) ==
    "Server " \o check.name_server.name \o " resolving "
        \o check.record_to_request \o " "
        \o (IF result = "Ok" THEN "FAIL" ELSE "PASS") \o "\n"

format_line(check, result) ==
    "Server " \o check.name_server.name \o " resolving "
        \o check.record_to_request \o " "
        \o (IF result = "Ok" THEN "PASS" ELSE "FAIL") \o "\n"

\* Variant: the pairs taken last to first.
RECURSIVE format_loop_reversed(_, _)
format_loop_reversed(rest, s) ==
    IF rest = <<>> THEN s
    ELSE format_loop_reversed(SubSeq(rest, 1, Len(rest) - 1),
                              s \o format_line(rest[Len(rest)][1], rest[Len(rest)][2]))

RECURSIVE format_loop(_, _)
format_loop(rest, s) ==
    IF rest = <<>> THEN s
    ELSE format_loop(Tail(rest), s \o format_line(Head(rest)[1], Head(rest)[2]))

format_check_results(results) ==
    format_loop(results, "Automated outage report\n\n")

(***************************************************************************)
(* Strings: str::contains, and the issue number parsed from an issue URL   *)
(* (url.split("/").last().unwrap().parse().unwrap()).                      *)
(***************************************************************************)
contains(s, pat) ==
    \E i \in 0..(Len(s) - Len(pat)) : SubSeq(s, i + 1, i + Len(pat)) = pat

Digits == <<"0", "1", "2", "3", "4", "5", "6", "7", "8", "9">>

IsDigit(c) == \E d \in 1..Len(Digits) : Digits[d] = c

DigitValue(c) == (CHOOSE d \in 1..Len(Digits) : Digits[d] = c) - 1

\* The part of s after its last "/" (all of s when it has none).
RECURSIVE last_segment_from(_, _)
last_segment_from(s, i) ==
    IF i = 0 THEN s
    ELSE IF SubSeq(s, i, i) = "/" THEN SubSeq(s, i + 1, Len(s))
    ELSE last_segment_from(s, i - 1)

last_segment(s) == last_segment_from(s, Len(s))

\* str::parse::<u64>: -1 stands for the Err that unwrap turns into a panic.
RECURSIVE parse_digits(_, _, _)
parse_digits(s, i, acc) ==
    IF i > Len(s) THEN acc
    ELSE IF IsDigit(SubSeq(s, i, i))
         THEN parse_digits(s, i + 1, acc * 10 + DigitValue(SubSeq(s, i, i)))
         ELSE -1

parse_u64(s) == IF Len(s) = 0 THEN -1 ELSE parse_digits(s, 1, 0)

issue_number_of(issue) == parse_u64(last_segment(issue.url))

(***************************************************************************)
(* The issue tracker (GitHub), as make_issue sees it.  `tracker` lists the *)
(* repository's issues in the order the list call returns them, newest     *)
(* first.                                                                  *)
(***************************************************************************)
RECURSIVE Decimal(_)
Decimal(n) ==
    IF n < 10 THEN Digits[n + 1]
    ELSE Decimal(n \div 10) \o Digits[(n % 10) + 1]

IssueUrl(number) ==
    "https://api.github.com/repos/joshmcguigan/infra/issues/" \o Decimal(number)

\* Titles of the issues a run may find: the marker itself, the marker inside
\* a longer title, and a title that differs from the marker in case only.
TitlePool == {"Outage Report", "DNS Outage Report (ns2)", "outage report"}

IssueKinds == [title : TitlePool, state : {"open", "closed"}]

\* Issues found before a run: the oldest is number 9, so that issue numbers
\* of one and of two digits occur.
MkTracker(kinds) ==
    [p \in 1..Len(kinds) |->
        [number   |-> 9 + (Len(kinds) - p),
         title    |-> kinds[p].title,
         state    |-> kinds[p].state,
         body     |-> "",
         comments |-> <<>>]]

Trackers == {MkTracker(k) : k \in UNION {[1..n -> IssueKinds] : n \in 0..MaxIssues}}

\* What the list call returns for state = Open: title and url of each open
\* issue, in tracker order.
IssueView(issue) == [title |-> issue.title, url |-> IssueUrl(issue.number)]

RECURSIVE ListOpen(_)
ListOpen(t) ==
    IF t = <<>> THEN <<>>
    ELSE IF Head(t).state = "open"
         THEN <<IssueView(Head(t))>> \o ListOpen(Tail(t))
         ELSE ListOpen(Tail(t))

NextNumber(t) ==
    IF t = <<>> THEN 1
    ELSE 1 + (CHOOSE n \in {t[i].number : i \in 1..Len(t)} :
                 \A i \in 1..Len(t) : t[i].number <= n)

TrackerCreateIssue(t, title, body) ==
    <<[number |-> NextNumber(t), title |-> title, state |-> "open",
       body |-> body, comments |-> <<>>]>> \o t

TrackerCreateComment(t, number, body) ==
    [p \in 1..Len(t) |->
        IF t[p].number = number
        THEN [t[p] EXCEPT !.comments = Append(@, body)]
        ELSE t[p]]

(***************************************************************************)
(* make_issue, lines 100-122: the filter on the title and the choice of    *)
(* the first match.                                                        *)
(***************************************************************************)
\* Variant: the marker written in lower case.
RECURSIVE filter_outage_issues_lower_case(_)
filter_outage_issues_lower_case(issues) ==
    IF issues = <<>> THEN <<>>
    ELSE IF contains(Head(issues).title, "outage report")
         THEN <<Head(issues)>> \o filter_outage_issues_lower_case(Tail(issues))
         ELSE filter_outage_issues_lower_case(Tail(issues))

RECURSIVE filter_outage_issues(_)
filter_outage_issues(issues) ==
    IF issues = <<>> THEN <<>>
    ELSE IF contains(Head(issues).title, ISSUE_TITLE)
         THEN <<Head(issues)>> \o filter_outage_issues(Tail(issues))
         ELSE filter_outage_issues(Tail(issues))

\* Variant: Vec::last in place of Vec::first.
first_takes_last(issues) ==
    IF issues = <<>> THEN [some |-> FALSE]
    ELSE [some |-> TRUE, issue |-> issues[Len(issues)]]

\* Vec::first: Some(existing_issue) or None.
first(issues) ==
    IF issues = <<>> THEN [some |-> FALSE]
    ELSE [some |-> TRUE, issue |-> issues[1]]

(***************************************************************************)
(* State.                                                                  *)
(***************************************************************************)
VARIABLES
    tracker,                \* the tracker's issues, in list order
    name_servers,           \* the inventory get_name_servers returns
    pc,                     \* where each run is
    checks,                 \* main: the checks get_checks built
    checks_with_results,    \* main: the (check, result) pairs collected so far
    check,                  \* perform_check: the check being performed
    retries,                \* perform_query_with_retries: retries left
    response,               \* perform_check: the response the query returned
    failed,                 \* main: the `failed` flag
    existing_outage_issues, \* make_issue: the open issues with the marker
    performed,              \* history: the checks handed to perform_check
    queries,                \* history: queries sent for the current check
    errors,                 \* history: of these, how many failed in transport
    calls,                  \* history: the tracker calls a run has made
    sent                    \* history: the queries a run has sent in all; it is
                            \* kept in SpecBudget only

vars == <<tracker, name_servers, pc, checks, checks_with_results, check,
          retries, response, failed, existing_outage_issues, performed,
          queries, errors, calls, sent>>

check_vars == <<check, retries, response, performed, queries, errors>>

issue_vars == <<tracker, existing_outage_issues, calls>>

NoCheck == [name_server |-> "none"]

\* A run that has not been started.
Idle ==
    /\ checks = [r \in Runs |-> <<>>]
    /\ checks_with_results = [r \in Runs |-> <<>>]
    /\ check = [r \in Runs |-> NoCheck]
    /\ retries = [r \in Runs |-> 0]
    /\ response = [r \in Runs |-> NoResponse]
    /\ failed = [r \in Runs |-> FALSE]
    /\ existing_outage_issues = [r \in Runs |-> <<>>]
    /\ performed = [r \in Runs |-> <<>>]
    /\ queries = [r \in Runs |-> 0]
    /\ errors = [r \in Runs |-> 0]
    /\ calls = [r \in Runs |-> <<>>]
    /\ sent = [r \in Runs |-> 0]

\* The trackers a whole run is explored from: no outage issue yet, an open
\* one, or a closed one.
RunTrackers ==
    {t \in Trackers : Len(t) <= 1 /\ \A p \in 1..Len(t) : t[p].title = ISSUE_TITLE}

\* One run of the program, from the entry of main.
Init ==
    /\ tracker \in RunTrackers
    /\ name_servers \in Inventories
    /\ pc = [r \in Runs |-> IF r = 1 THEN "main" ELSE "idle"]
    /\ Idle

(***************************************************************************)
(* main, lines 25-33.                                                      *)
(***************************************************************************)
\* Lines 25-26: the inventory and its checks.
Main(r) ==
    /\ pc[r] = "main"
    /\ checks' = [checks EXCEPT ![r] = get_checks(name_servers)]
    /\ pc' = [pc EXCEPT ![r] = "map"]
    /\ UNCHANGED <<name_servers, checks_with_results, failed>>
    /\ UNCHANGED check_vars
    /\ UNCHANGED issue_vars

\* Variant: the iteration stops at the first failed check.
has_next_until_err(cs, results) == Len(results) < Len(cs) /\ ~any_err(results)

\* Variant: the iteration ends one check early.
has_next_skips_last(cs, results) == Len(results) + 1 < Len(cs)

\* The iterator of lines 27-33 has a next check when fewer results than
\* checks have been collected.
has_next(cs, results) == Len(results) < Len(cs)

\* Lines 29-30 and 153-159: the next check enters perform_check, with a
\* fresh client and retries = 2.
PerformCheck(r) ==
    /\ pc[r] = "map"
    /\ has_next(checks[r], checks_with_results[r])
    /\ LET c == checks[r][Len(checks_with_results[r]) + 1] IN
        /\ check' = [check EXCEPT ![r] = c]
        /\ performed' = [performed EXCEPT ![r] = Append(@, c)]
    /\ retries' = [retries EXCEPT ![r] = DefaultRetries]
    /\ queries' = [queries EXCEPT ![r] = 0]
    /\ errors' = [errors EXCEPT ![r] = 0]
    /\ pc' = [pc EXCEPT ![r] = "query"]
    /\ UNCHANGED <<name_servers, checks, checks_with_results, failed, response>>
    /\ UNCHANGED issue_vars

\* Line 178: client.query sends the question.
SendQuery(r) ==
    /\ pc[r] = "query"
    /\ queries' = [queries EXCEPT ![r] = @ + 1]
    /\ pc' = [pc EXCEPT ![r] = "await"]
    /\ UNCHANGED <<name_servers, checks, checks_with_results, failed,
                   check, retries, response, performed, errors>>
    /\ UNCHANGED issue_vars

\* Lines 178-184 and 159: the query returns res, a transport error or a
\* response.  An error with retries left queries again; an error with none
\* left makes perform_check return Err(()) through `?`; a response goes
\* back to perform_check.
QueryReturns(r) ==
    /\ pc[r] = "await"
    /\ \E res \in {NoResponse} \cup {DnsResponse(a) : a \in AnswerLists} :
        LET m == match_query(res, retries[r]) IN
        /\ retries' = [retries EXCEPT ![r] = m.retries]
        /\ errors' = [errors EXCEPT ![r] = IF res.valid THEN @ ELSE @ + 1]
        /\ response' = [response EXCEPT ![r] = IF m.kind = "Ok" THEN res ELSE @]
        /\ pc' = [pc EXCEPT ![r] =
                    CASE m.kind = "Ok"    -> "inspect"
                      [] m.kind = "Retry" -> "query"
                      [] m.kind = "Err"   -> "map"]
        /\ checks_with_results' =
              [checks_with_results EXCEPT ![r] =
                  IF m.kind = "Err" THEN Append(@, <<check[r], "Err">>) ELSE @]
        /\ check' = [check EXCEPT ![r] = IF m.kind = "Err" THEN NoCheck ELSE @]
    /\ UNCHANGED <<name_servers, checks, failed, performed, queries>>
    /\ UNCHANGED issue_vars

\* Lines 160-170: perform_check looks at answers[0] and returns; the pair
\* (check, result) is collected.  On an empty answer section the indexing
\* panics and the process dies.
Inspect(r) ==
    /\ pc[r] = "inspect"
    /\ LET v == inspect_answers(check[r], response[r].answers) IN
        /\ pc' = [pc EXCEPT ![r] = IF v = "panic" THEN "panicked" ELSE "map"]
        /\ checks_with_results' =
              [checks_with_results EXCEPT ![r] =
                  IF v = "panic" THEN @ ELSE Append(@, <<check[r], v>>)]
    /\ check' = [check EXCEPT ![r] = NoCheck]
    /\ response' = [response EXCEPT ![r] = NoResponse]
    /\ UNCHANGED <<name_servers, checks, failed, retries, performed, queries, errors>>
    /\ UNCHANGED issue_vars

\* Lines 33-47: the iterator is exhausted, collect ends; `failed` is
\* computed and main either enters make_issue or reports all OK and exits.
\* No perform_check is in progress any more: its locals and the per-check
\* history are cleared.
Collect(r) ==
    /\ pc[r] = "map"
    /\ ~has_next(checks[r], checks_with_results[r])
    /\ failed' = [failed EXCEPT ![r] = any_err(checks_with_results[r])]
    /\ pc' = [pc EXCEPT ![r] = after_checks(failed'[r])]
    /\ retries' = [retries EXCEPT ![r] = 0]
    /\ queries' = [queries EXCEPT ![r] = 0]
    /\ errors' = [errors EXCEPT ![r] = 0]
    /\ UNCHANGED <<name_servers, checks, checks_with_results, check, response,
                   performed>>
    /\ UNCHANGED issue_vars

(***************************************************************************)
(* make_issue.                                                             *)
(***************************************************************************)
Call(r, c) == calls' = [calls EXCEPT ![r] = Append(@, c)]

\* Lines 100-110, the list call succeeds: the open issues, filtered on the
\* title.
ListIssues(r) ==
    /\ pc[r] = "make_issue"
    /\ existing_outage_issues' =
          [existing_outage_issues EXCEPT ![r] = filter_outage_issues(ListOpen(tracker))]
    /\ Call(r, [op |-> "list", ok |-> TRUE])
    /\ pc' = [pc EXCEPT ![r] = "match"]
    /\ UNCHANGED <<tracker, name_servers, checks, checks_with_results, failed>>
    /\ UNCHANGED check_vars

\* Variant: a failed list call is taken for an empty list.
ListIssuesFails_as_empty(r) ==
    /\ pc[r] = "make_issue"
    /\ Call(r, [op |-> "list", ok |-> FALSE])
    /\ existing_outage_issues' = [existing_outage_issues EXCEPT ![r] = <<>>]
    /\ pc' = [pc EXCEPT ![r] = "match"]
    /\ UNCHANGED <<tracker, name_servers, checks, checks_with_results, failed>>
    /\ UNCHANGED check_vars

\* Line 110, the list call fails: `?` returns the error and main's unwrap
\* ends the process.
ListIssuesFails(r) ==
    /\ pc[r] = "make_issue"
    /\ Call(r, [op |-> "list", ok |-> FALSE])
    /\ pc' = [pc EXCEPT ![r] = "exit_err"]
    /\ UNCHANGED <<tracker, existing_outage_issues, name_servers, checks,
                   checks_with_results, failed>>
    /\ UNCHANGED check_vars

\* Variant: when the comment fails, a new issue is created instead.
CreateComment_falls_back(r) ==
    /\ pc[r] = "match"
    /\ first(existing_outage_issues[r]).some
    /\ LET issue_number == issue_number_of(first(existing_outage_issues[r]).issue)
           body == format_check_results(checks_with_results[r])
       IN \E ok \in BOOLEAN :
               /\ Call(r, [op |-> "create_comment", ok |-> ok,
                           issue_number |-> issue_number, body |-> body])
               /\ tracker' = IF ok THEN TrackerCreateComment(tracker, issue_number, body)
                             ELSE tracker
               /\ pc' = [pc EXCEPT ![r] = IF ok THEN "exit_ok" ELSE "match"]
               /\ existing_outage_issues' =
                     [existing_outage_issues EXCEPT ![r] = IF ok THEN @ ELSE <<>>]
    /\ UNCHANGED <<name_servers, checks, checks_with_results, failed>>
    /\ UNCHANGED check_vars

\* Lines 123-137: a comment with the report on the first existing issue.
CreateComment(r) ==
    /\ pc[r] = "match"
    /\ first(existing_outage_issues[r]).some
    /\ LET issue_number == issue_number_of(first(existing_outage_issues[r]).issue)
           body == format_check_results(checks_with_results[r])
       IN IF issue_number < 0
          THEN /\ pc' = [pc EXCEPT ![r] = "panicked"]
               /\ UNCHANGED <<tracker, calls>>
          ELSE \E ok \in BOOLEAN :
               /\ Call(r, [op |-> "create_comment", ok |-> ok,
                           issue_number |-> issue_number, body |-> body])
               /\ tracker' = IF ok THEN TrackerCreateComment(tracker, issue_number, body)
                             ELSE tracker
               /\ pc' = [pc EXCEPT ![r] = IF ok THEN "exit_ok" ELSE "exit_err"]
    /\ UNCHANGED <<existing_outage_issues, name_servers, checks,
                   checks_with_results, failed>>
    /\ UNCHANGED check_vars

\* Variant: the issue is created only if, at the time of the call, no open
\* issue holds the marker.
CreateIssue_guarded(r) ==
    /\ pc[r] = "match"
    /\ ~first(existing_outage_issues[r]).some
    /\ LET body == format_check_results(checks_with_results[r]) IN
       \E ok \in BOOLEAN :
           /\ Call(r, [op |-> "create_issue", ok |-> ok,
                       title |-> ISSUE_TITLE, body |-> body])
           /\ tracker' = IF ok /\ filter_outage_issues(ListOpen(tracker)) = <<>>
                         THEN TrackerCreateIssue(tracker, ISSUE_TITLE, body)
                         ELSE tracker
           /\ pc' = [pc EXCEPT ![r] = IF ok THEN "exit_ok" ELSE "exit_err"]
    /\ UNCHANGED <<existing_outage_issues, name_servers, checks,
                   checks_with_results, failed>>
    /\ UNCHANGED check_vars

\* Lines 138-147: a new issue titled ISSUE_TITLE with the report as body.
CreateIssue(r) ==
    /\ pc[r] = "match"
    /\ ~first(existing_outage_issues[r]).some
    /\ LET body == format_check_results(checks_with_results[r]) IN
       \E ok \in BOOLEAN :
           /\ Call(r, [op |-> "create_issue", ok |-> ok,
                       title |-> ISSUE_TITLE, body |-> body])
           /\ tracker' = IF ok THEN TrackerCreateIssue(tracker, ISSUE_TITLE, body)
                         ELSE tracker
           /\ pc' = [pc EXCEPT ![r] = IF ok THEN "exit_ok" ELSE "exit_err"]
    /\ UNCHANGED <<existing_outage_issues, name_servers, checks,
                   checks_with_results, failed>>
    /\ UNCHANGED check_vars

(***************************************************************************)
(* Specifications.                                                         *)
(***************************************************************************)
Next ==
    \E r \in Runs :
        \/ Main(r) /\ UNCHANGED sent
        \/ PerformCheck(r) /\ UNCHANGED sent
        \/ SendQuery(r) /\ UNCHANGED sent
        \/ QueryReturns(r) /\ UNCHANGED sent
        \/ Inspect(r) /\ UNCHANGED sent
        \/ Collect(r) /\ UNCHANGED sent
        \/ ListIssues(r) /\ UNCHANGED sent
        \/ ListIssuesFails(r) /\ UNCHANGED sent
        \/ CreateComment(r) /\ UNCHANGED sent
        \/ CreateIssue(r) /\ UNCHANGED sent

Spec == Init /\ [][Next]_vars

(***************************************************************************)
(* make_issue on its own: a run at the entry of make_issue, for every      *)
(* tracker of up to MaxIssues issues.  The results the run arrives with    *)
(* have one failed check, or all checks failed.                            *)
(***************************************************************************)
FailingResults(cs) ==
    {[k \in 1..Len(cs) |-> <<cs[k], IF k = f THEN "Err" ELSE "Ok">>] : f \in 1..Len(cs)}
    \cup {[k \in 1..Len(cs) |-> <<cs[k], "Err">>]}

InitIssue ==
    /\ tracker \in Trackers
    /\ name_servers \in Inventories
    /\ pc = [r \in Runs |-> IF r = 1 THEN "make_issue" ELSE "idle"]
    /\ checks = [r \in Runs |-> IF r = 1 THEN get_checks(name_servers) ELSE <<>>]
    /\ performed = checks
    /\ checks_with_results \in
          {[r \in Runs |-> IF r = 1 THEN res ELSE <<>>] : res \in FailingResults(checks[1])}
    /\ failed = [r \in Runs |-> r = 1]
    /\ check = [r \in Runs |-> NoCheck]
    /\ retries = [r \in Runs |-> 0]
    /\ response = [r \in Runs |-> NoResponse]
    /\ existing_outage_issues = [r \in Runs |-> <<>>]
    /\ queries = [r \in Runs |-> 0]
    /\ errors = [r \in Runs |-> 0]
    /\ calls = [r \in Runs |-> <<>>]
    /\ sent = [r \in Runs |-> 0]

NextIssue ==
    \E r \in Runs :
        \/ ListIssues(r) /\ UNCHANGED sent
        \/ ListIssuesFails(r) /\ UNCHANGED sent
        \/ CreateComment(r) /\ UNCHANGED sent
        \/ CreateIssue(r) /\ UNCHANGED sent

SpecIssue == InitIssue /\ [][NextIssue]_vars

(***************************************************************************)
(* Properties.                                                             *)
(***************************************************************************)
Last(seq) == seq[Len(seq)]

N == Len(name_servers)

\* The run has left the collect of lines 27-33 normally.
PastChecks(r) == pc[r] \in {"make_issue", "match", "exit_ok", "exit_err"}

SomeFail(r) ==
    \E k \in 1..Len(checks_with_results[r]) : checks_with_results[r][k][2] = "Err"

\* The titles of TitlePool that hold the marker "Outage Report".
MarkedTitles == {"Outage Report", "DNS Outage Report (ns2)"}

\* Positions of the open issues of the tracker whose title holds the marker.
OpenMarked == {p \in 1..Len(tracker) :
                  tracker[p].state = "open" /\ tracker[p].title \in MarkedTitles}

\* C1: make_issue, once the list call has returned: with no open issue whose
\* title contains "Outage Report" the one further tracker call is create-issue
\* (titled "Outage Report"); with one or more it is create-comment on the
\* first of them in the order the tracker lists them.  Either way the run's
\* calls are the list and that one call, so the other call is never made.
C1_CreateOrComment ==
    [][\A r \in Runs :
          (pc[r] = "match" /\ pc'[r] # "match") =>
             /\ Len(calls'[r]) = 2
             /\ calls'[r][1] = [op |-> "list", ok |-> TRUE]
             /\ IF OpenMarked = {}
                THEN /\ calls'[r][2].op = "create_issue"
                     /\ calls'[r][2].title = "Outage Report"
                ELSE /\ calls'[r][2].op = "create_comment"
                     /\ \E p \in OpenMarked :
                           /\ \A q \in OpenMarked : p <= q
                           /\ calls'[r][2].issue_number = tracker[p].number]_vars

\* A run has commented on an open outage issue that is not the first issue
\* the tracker lists.
C1_Witness ==
    /\ pc[1] = "exit_ok"
    /\ Len(calls[1]) = 2
    /\ calls[1][2].op = "create_comment"
    /\ Len(tracker) > 1
    /\ calls[1][2].issue_number # tracker[1].number
    /\ \E p \in 2..Len(tracker) :
          /\ tracker[p].number = calls[1][2].issue_number
          /\ tracker[p].comments # <<>>

\* The answer that makes a check pass: a first record of type A whose
\* address is the expected one.
FirstAnswerMatches(r) ==
    /\ Len(response[r].answers) > 0
    /\ response[r].answers[1].rtype = "A"
    /\ response[r].answers[1].rdata = check[r].expected_ip

FirstAnswerMismatches(r) ==
    /\ Len(response[r].answers) > 0
    /\ response[r].answers[1].rtype = "A"
    /\ response[r].answers[1].rdata # check[r].expected_ip

\* C2: with retry budget 2, a transport failure that is not beyond the budget
\* (the k-th, k <= 2) is followed by another query, and a response whose
\* first answer is an A record equal to expected_ip, arriving after k <= 2
\* transport failures, makes the check's result Ok after exactly k + 1 queries.
C2_PassAfterRetries ==
    [][\A r \in Runs :
          /\ (pc[r] = "await" /\ errors'[r] = errors[r] + 1 /\ errors'[r] <= 2)
                => (pc'[r] = "query" /\ checks_with_results'[r] = checks_with_results[r])
          /\ (pc[r] = "inspect" /\ FirstAnswerMatches(r))
                => /\ errors[r] <= 2
                   /\ queries[r] = errors[r] + 1
                   /\ pc'[r] = "map"
                   /\ checks_with_results'[r] =
                         Append(checks_with_results[r], <<check[r], "Ok">>)]_vars

\* A check has passed on its third query, after two transport failures.
C2_Witness ==
    /\ pc[1] = "map"
    /\ queries[1] = 3
    /\ errors[1] = 2
    /\ checks_with_results[1] # <<>>
    /\ Last(checks_with_results[1]) = <<Last(performed[1]), "Ok">>

\* C3: a check never sends more than retries + 1 = 3 queries, and a check
\* that ended with every query failed in transport has sent exactly 3 and
\* its result is Err.
C3_FailAfterBudget ==
    \A r \in Runs :
        /\ queries[r] <= DefaultRetries + 1
        /\ (pc[r] = "map" /\ queries[r] > 0 /\ errors[r] = queries[r]) =>
              /\ queries[r] = DefaultRetries + 1
              /\ queries[r] = 3
              /\ Len(checks_with_results[r]) = Len(performed[r])
              /\ Last(checks_with_results[r]) = <<Last(performed[r]), "Err">>

\* A check has failed with all three of its queries failed in transport.
C3_Witness ==
    /\ pc[1] = "map"
    /\ queries[1] = 3
    /\ errors[1] = 3
    /\ Last(checks_with_results[1])[2] = "Err"

\* C4: a response whose first answer is an A record with another address
\* than expected_ip makes the check's result Err at once, whatever retries
\* are left; and a query is only ever sent when every earlier query of the
\* same check failed in transport, so none follows a response.
C4_MismatchNotRetried ==
    [][\A r \in Runs :
          /\ (pc[r] = "inspect" /\ FirstAnswerMismatches(r))
                => /\ pc'[r] = "map"
                   /\ queries'[r] = queries[r]
                   /\ checks_with_results'[r] =
                         Append(checks_with_results[r], <<check[r], "Err">>)
          /\ (queries'[r] > queries[r])
                => /\ ~response[r].valid
                   /\ errors[r] = queries[r]
                   /\ Len(checks_with_results[r]) < Len(performed[r])]_vars

\* A first query has returned a wrong address with both retries still left.
C4_Witness ==
    /\ pc[1] = "inspect"
    /\ FirstAnswerMismatches(1)
    /\ retries[1] = DefaultRetries
    /\ queries[1] = 1

\* C5 (as claimed): a response with no answer record makes the check's result
\* Err, without another query, and the run goes on with the next check.
C5_EmptyAnswerFails ==
    [][\A r \in Runs :
          (pc[r] = "inspect" /\ response[r].valid /\ response[r].answers = <<>>)
             => /\ pc'[r] = "map"
                /\ queries'[r] = queries[r]
                /\ checks_with_results'[r] =
                      Append(checks_with_results[r], <<check[r], "Err">>)]_vars

\* C6: get_checks gives N*N checks, the one at 0-based position i*N + j
\* querying inventory[i] for the name of inventory[j] and expecting the
\* address of inventory[j].
\* The list is built by the one call of get_checks in main and is never
\* written again, so the property is stated on the step that builds it and
\* on the steps that follow.
C6_CheckMatrix ==
    [][\A r \in Runs :
          /\ pc[r] = "main" =>
                /\ Len(checks'[r]) = N * N
                /\ \A i \in 0..(N - 1) : \A j \in 0..(N - 1) :
                      /\ checks'[r][i * N + j + 1].name_server = name_servers[i + 1]
                      /\ checks'[r][i * N + j + 1].record_to_request
                            = name_servers[j + 1].name
                      /\ checks'[r][i * N + j + 1].expected_ip
                            = name_servers[j + 1].address
          /\ pc[r] \notin {"idle", "main"} =>
                /\ checks'[r] = checks[r]
                /\ name_servers' = name_servers]_vars

\* The checks of an inventory of two different servers have been built.
C6_Witness ==
    /\ pc[1] = "map"
    /\ N >= 2
    /\ name_servers[1] # name_servers[2]
    /\ Len(checks[1]) = N * N

\* C7: the checks are performed one by one in builder order, each once, and
\* a run that is past the checks has performed all N*N of them and holds
\* N*N results, the k-th for the k-th check, whatever the results were.
C7_NoEarlyExit ==
    \A r \in Runs :
        /\ Len(performed[r]) <= Len(checks[r])
        /\ performed[r] = SubSeq(checks[r], 1, Len(performed[r]))
        /\ PastChecks(r) =>
              /\ Len(checks[r]) = N * N
              /\ performed[r] = checks[r]
              /\ Len(checks_with_results[r]) = N * N
              /\ \A k \in 1..(N * N) :
                    /\ checks_with_results[r][k][1] = checks[r][k]
                    /\ checks_with_results[r][k][2] \in {"Ok", "Err"}

\* A run is past its checks with the first check failed and the last passed.
C7_Witness ==
    /\ PastChecks(1)
    /\ N >= 2
    /\ Len(checks_with_results[1]) = N * N
    /\ checks_with_results[1][1][2] = "Err"
    /\ Last(checks_with_results[1])[2] = "Ok"

\* C8 (as claimed): whatever the DNS attempts return, a run never aborts
\* while checks are still to be performed.
C8_NeverAbortsInChecks ==
    \A r \in Runs :
        ~(pc[r] = "panicked" /\ Len(checks_with_results[r]) < Len(checks[r]))

\* C9: a step that makes a tracker call or changes the tracker belongs to a
\* run that holds all its N*N results, one of them Err; so a run whose
\* results are all Ok makes no call and leaves the tracker as it was.
C9_TrackerOnlyOnFailure ==
    [][(calls' # calls \/ tracker' # tracker) =>
          \E r \in Runs :
              /\ calls'[r] # calls[r]
              /\ \A q \in Runs \ {r} : calls'[q] = calls[q]
              /\ Len(checks_with_results[r]) = N * N
              /\ SomeFail(r)]_vars

\* A run has ended with all N*N results Ok and no tracker call made.
C9_Witness ==
    /\ pc[1] = "exit_ok"
    /\ N >= 2
    /\ Len(checks_with_results[1]) = N * N
    /\ ~SomeFail(1)
    /\ calls[1] = <<>>

\* C10: once computed, `failed` is TRUE exactly when one of the N*N results
\* is Err.
C10_FailedIffSomeErr ==
    \A r \in Runs :
        PastChecks(r) =>
           /\ Len(checks_with_results[r]) = N * N
           /\ failed[r] = SomeFail(r)

\* `failed` is TRUE in a run whose only failed check is the last one.
C10_Witness ==
    /\ PastChecks(1)
    /\ N >= 2
    /\ failed[1]
    /\ \A k \in 1..(N * N - 1) : checks_with_results[1][k][2] = "Ok"
    /\ checks_with_results[1][N * N][2] = "Err"

\* C11: a tracker call that fails is the last call of its run and leaves the
\* run in the error exit: after a failed list neither create call is made,
\* after a failed create-comment no create-issue and the other way round,
\* and no call is made twice.
C11_FailureIsFatal ==
    \A r \in Runs :
        /\ Len(calls[r]) <= 2
        /\ \A k \in 1..Len(calls[r]) :
              /\ ~calls[r][k].ok => (k = Len(calls[r]) /\ pc[r] = "exit_err")
              /\ calls[r][k].op \in {"create_issue", "create_comment"} =>
                    (k = 2 /\ calls[r][1] = [op |-> "list", ok |-> TRUE])
              /\ \A j \in 1..(k - 1) : calls[r][j].op # calls[r][k].op
        /\ pc[r] = "exit_err" => (calls[r] # <<>> /\ ~Last(calls[r]).ok)

\* A create-comment has failed: the run is in the error exit with the list
\* and that one call made, and the tracker holds no comment.
C11_Witness ==
    /\ pc[1] = "exit_err"
    /\ Len(calls[1]) = 2
    /\ calls[1][2].op = "create_comment"
    /\ ~calls[1][2].ok
    /\ \A p \in 1..Len(tracker) : tracker[p].comments = <<>>

\* The report as the specification words it: the header line, a blank line,
\* then for each pair, first to last, the line
\* "Server <querying server> resolving <record> <PASS|FAIL>" and a newline.
ReportLine(pair) ==
    "Server " \o pair[1].name_server.name \o " resolving " \o pair[1].record_to_request
        \o (IF pair[2] = "Ok" THEN " PASS" ELSE " FAIL") \o "\n"

RECURSIVE ReportLinesFrom(_, _)
ReportLinesFrom(results, k) ==
    IF k > Len(results) THEN ""
    ELSE ReportLine(results[k]) \o ReportLinesFrom(results, k + 1)

ExpectedReport(results) ==
    "Automated outage report" \o "\n" \o "\n" \o ReportLinesFrom(results, 1)

\* The string the test `format` asserts.
TestReport ==
    "Automated outage report\n\nServer ns1.rhiyo.com. resolving ns1.rhiyo.com. PASS\nServer ns1.rhiyo.com. resolving ns2.rhiyo.com. PASS\nServer ns2.rhiyo.com. resolving ns1.rhiyo.com. FAIL\nServer ns2.rhiyo.com. resolving ns2.rhiyo.com. FAIL\n"

\* The results of the test: the checks of <<ns1, ns2>>, those asked of ns1
\* passed and those asked of ns2 failed.
TestResults(r) ==
    /\ name_servers = <<ns1, ns2>>
    /\ Len(checks_with_results[r]) = 4
    /\ \A k \in 1..4 : checks_with_results[r][k][2] = (IF k <= 2 THEN "Ok" ELSE "Err")

\* C12: format_check_results of the pairs a run holds between two checks,
\* however many and whatever their outcomes, is the header, a blank line and one line per pair
\* in order, PASS exactly for Ok; every report posted to the tracker is that
\* string; and for the results of the test it is the string the test asserts.
C12_ReportFormat ==
    \A r \in Runs :
        /\ pc[r] = "map" =>
              format_check_results(checks_with_results[r])
                 = ExpectedReport(checks_with_results[r])
        /\ (pc[r] = "map" /\ TestResults(r)) =>
              format_check_results(checks_with_results[r]) = TestReport
        /\ \A k \in 1..Len(calls[r]) :
              calls[r][k].op # "list" =>
                 calls[r][k].body = ExpectedReport(checks_with_results[r])

\* The report of the test has been posted as the body of a new issue.
C12_Witness ==
    /\ TestResults(1)
    /\ pc[1] = "exit_ok"
    /\ calls[1][2].op = "create_issue"
    /\ calls[1][2].body = TestReport
    /\ tracker[1].body = TestReport

\* The k-th result line (0-based) of a run's report, from the inventory:
\* querying server inventory[k div N], target inventory[k mod N], and the
\* outcome of the run's k-th check.
MatrixLine(r, k) ==
    "Server " \o name_servers[(k \div N) + 1].name
        \o " resolving " \o name_servers[(k % N) + 1].name
        \o (IF checks_with_results[r][k + 1][2] = "Ok" THEN " PASS" ELSE " FAIL")
        \o "\n"

RECURSIVE MatrixLinesFrom(_, _)
MatrixLinesFrom(r, k) ==
    IF k >= N * N THEN "" ELSE MatrixLine(r, k) \o MatrixLinesFrom(r, k + 1)

MatrixReport(r) == "Automated outage report\n\n" \o MatrixLinesFrom(r, 0)

\* C13: the body of every create-issue and create-comment call is the report
\* of all N*N results of the run, line k naming inventory[k div N] and
\* inventory[k mod N] with the k-th outcome; when the call succeeds, that
\* body is what the tracker holds, as the body of the new issue or as the
\* last comment of the issue commented on.
C13_ReportOrder ==
    \A r \in Runs : \A k \in 1..Len(calls[r]) :
        calls[r][k].op # "list" =>
           /\ Len(checks_with_results[r]) = N * N
           /\ calls[r][k].body = MatrixReport(r)
           /\ (calls[r][k].op = "create_issue" /\ calls[r][k].ok) =>
                 /\ tracker[1].title = "Outage Report"
                 /\ tracker[1].state = "open"
                 /\ tracker[1].body = MatrixReport(r)
           /\ (calls[r][k].op = "create_comment" /\ calls[r][k].ok) =>
                 \E p \in 1..Len(tracker) :
                    /\ tracker[p].number = calls[r][k].issue_number
                    /\ tracker[p].comments = <<MatrixReport(r)>>

\* A run over two different servers, with passed and failed checks, has
\* posted its report as a comment.
C13_Witness ==
    /\ pc[1] = "exit_ok"
    /\ N >= 2
    /\ name_servers[1] # name_servers[2]
    /\ checks_with_results[1][1][2] = "Ok"
    /\ checks_with_results[1][2][2] = "Err"
    /\ Len(calls[1]) = 2
    /\ calls[1][2].op = "create_comment"
    /\ tracker[1].comments = <<MatrixReport(1)>>

(***************************************************************************)
(* Successive runs: the job is started again once the run before it has    *)
(* ended, and between any two steps somebody may close an issue by hand    *)
(* (lines 115-117).  Nobody re-opens an issue or creates one by hand.      *)
(***************************************************************************)
Finished(r) == pc[r] \in {"exit_ok", "exit_err", "panicked"}

\* The issues and comments that runs have posted.
RECURSIVE Posted(_)
Posted(t) ==
    IF t = <<>> THEN 0
    ELSE (IF Head(t).body = "" THEN 0 ELSE 1) + Len(Head(t).comments) + Posted(Tail(t))

\* The scheduler starts the program again: a new process, with nothing kept
\* from the run before but the tracker.
StartRun(r) ==
    /\ Finished(r)
    /\ Posted(tracker) < MaxPosts
    /\ pc' = [pc EXCEPT ![r] = "main"]
    /\ checks' = [checks EXCEPT ![r] = <<>>]
    /\ checks_with_results' = [checks_with_results EXCEPT ![r] = <<>>]
    /\ check' = [check EXCEPT ![r] = NoCheck]
    /\ retries' = [retries EXCEPT ![r] = 0]
    /\ response' = [response EXCEPT ![r] = NoResponse]
    /\ failed' = [failed EXCEPT ![r] = FALSE]
    /\ existing_outage_issues' = [existing_outage_issues EXCEPT ![r] = <<>>]
    /\ performed' = [performed EXCEPT ![r] = <<>>]
    /\ queries' = [queries EXCEPT ![r] = 0]
    /\ errors' = [errors EXCEPT ![r] = 0]
    /\ calls' = [calls EXCEPT ![r] = <<>>]
    /\ UNCHANGED <<tracker, name_servers, sent>>

\* An open issue is closed by hand.
ManualClose(p) ==
    /\ p \in 1..Len(tracker)
    /\ tracker[p].state = "open"
    /\ tracker' = [tracker EXCEPT ![p].state = "closed"]
    /\ UNCHANGED <<name_servers, pc, checks, checks_with_results, failed,
                   existing_outage_issues, calls, sent>>
    /\ UNCHANGED check_vars

\* The trackers with no open issue whose title holds the marker.
NoOutageTrackers ==
    {t \in Trackers :
        \A p \in 1..Len(t) : t[p].state = "open" => ~contains(t[p].title, ISSUE_TITLE)}

\* Successive runs are explored over the inventories of one server.
InitSeq ==
    /\ tracker \in NoOutageTrackers
    /\ name_servers \in [1..1 -> Pool]
    /\ pc = [r \in Runs |-> IF r = 1 THEN "main" ELSE "idle"]
    /\ Idle

NextSeq ==
    \/ \E r \in Runs :
        \/ Main(r) /\ UNCHANGED sent
        \/ PerformCheck(r) /\ UNCHANGED sent
        \/ SendQuery(r) /\ UNCHANGED sent
        \/ QueryReturns(r) /\ UNCHANGED sent
        \/ Inspect(r) /\ UNCHANGED sent
        \/ Collect(r) /\ UNCHANGED sent
        \/ ListIssues(r) /\ UNCHANGED sent
        \/ ListIssuesFails(r) /\ UNCHANGED sent
        \/ CreateComment(r) /\ UNCHANGED sent
        \/ CreateIssue(r) /\ UNCHANGED sent
        \/ StartRun(r)
    \/ \E p \in 1..(MaxIssues + MaxPosts) : ManualClose(p)

SpecSeq == InitSeq /\ [][NextSeq]_vars

\* C14: under successive runs and manual closing, from a tracker with no
\* open issue holding the marker, the tracker never holds two open issues
\* whose title holds the marker, and a run that is about to create an issue
\* does so with no such issue open; so a run that finds the issue of an
\* earlier run open comments on it.
C14_AtMostOneOpenOutageIssue ==
    /\ Cardinality(OpenMarked) <= 1
    /\ \A r \in Runs :
          /\ (pc[r] = "match" /\ existing_outage_issues[r] = <<>>) => OpenMarked = {}
          /\ \A k \in 1..Len(calls[r]) :
                (calls[r][k].op = "create_comment" /\ calls[r][k].ok) =>
                   \E p \in 1..Len(tracker) :
                      /\ tracker[p].number = calls[r][k].issue_number
                      /\ tracker[p].title \in MarkedTitles

\* A later run has commented on the open issue an earlier run created.
C14_Witness ==
    /\ pc[1] = "exit_ok"
    /\ Len(calls[1]) = 2
    /\ calls[1][2].op = "create_comment"
    /\ Cardinality(OpenMarked) = 1
    /\ \E p \in OpenMarked :
          /\ tracker[p].number = calls[1][2].issue_number
          /\ tracker[p].body # ""
          /\ tracker[p].comments # <<>>

(***************************************************************************)
(* Overlapping runs: every run is at the entry of make_issue with a failed *)
(* check, the tracker holds no open issue with the marker, and the runs'   *)
(* tracker calls interleave in any order.                                  *)
(***************************************************************************)
InitRace ==
    /\ tracker \in NoOutageTrackers
    /\ name_servers \in [1..1 -> Pool]
    /\ pc = [r \in Runs |-> "make_issue"]
    /\ checks = [r \in Runs |-> get_checks(name_servers)]
    /\ performed = checks
    /\ checks_with_results = [r \in Runs |-> <<<<checks[r][1], "Err">>>>]
    /\ failed = [r \in Runs |-> TRUE]
    /\ check = [r \in Runs |-> NoCheck]
    /\ retries = [r \in Runs |-> 0]
    /\ response = [r \in Runs |-> NoResponse]
    /\ existing_outage_issues = [r \in Runs |-> <<>>]
    /\ queries = [r \in Runs |-> 0]
    /\ errors = [r \in Runs |-> 0]
    /\ calls = [r \in Runs |-> <<>>]
    /\ sent = [r \in Runs |-> 0]

SpecRace == InitRace /\ [][NextIssue]_vars

OpenMarkedIn(t) == {p \in 1..Len(t) :
                       t[p].state = "open" /\ t[p].title \in MarkedTitles}

\* C15: nothing guards the creation: a run whose list showed no open outage
\* issue, and whose create-issue call succeeds, adds an open issue titled
\* "Outage Report" whatever the tracker holds by then, so that the number of
\* open outage issues goes up by one also when another run has created one
\* in between.
C15_CreateIsUnguarded ==
    [][\A r \in Runs :
          (pc[r] = "match" /\ existing_outage_issues[r] = <<>> /\ pc'[r] = "exit_ok") =>
             /\ Len(tracker') = Len(tracker) + 1
             /\ tracker'[1].title = "Outage Report"
             /\ tracker'[1].state = "open"
             /\ Cardinality(OpenMarkedIn(tracker')) = Cardinality(OpenMarkedIn(tracker)) + 1]_vars

\* Two runs have both listed before either created, both have created an
\* issue, and the tracker holds two open issues titled "Outage Report".
C15_Witness ==
    /\ pc[1] = "exit_ok"
    /\ pc[2] = "exit_ok"
    /\ existing_outage_issues[1] = <<>>
    /\ existing_outage_issues[2] = <<>>
    /\ calls[1][2].op = "create_issue"
    /\ calls[2][2].op = "create_issue"
    /\ Cardinality({p \in 1..Len(tracker) :
                       tracker[p].state = "open" /\ tracker[p].title = "Outage Report"}) = 2

\* C16: a query is sent only by a run that has no query in flight, has the
\* results of all earlier checks and has made no tracker call; a check
\* enters perform_check only when the check before it has its result; and a
\* tracker call is made only by a run that holds the results of all its
\* checks, with no check in progress.
C16_ChecksThenTracker ==
    [][\A r \in Runs :
          /\ (queries'[r] = queries[r] + 1) =>
                /\ pc[r] = "query" /\ pc'[r] = "await"
                /\ Len(performed[r]) = Len(checks_with_results[r]) + 1
                /\ calls[r] = <<>>
          /\ (pc'[r] = "await") => (pc[r] \in {"query", "await"})
          /\ (Len(performed'[r]) > Len(performed[r])) =>
                /\ pc[r] = "map"
                /\ Len(checks_with_results[r]) = Len(performed[r])
          /\ (calls'[r] # calls[r]) =>
                /\ pc[r] \in {"make_issue", "match"}
                /\ Len(checks[r]) = N * N
                /\ Len(performed[r]) = N * N
                /\ Len(checks_with_results[r]) = N * N
                /\ check[r] = NoCheck
                /\ response[r] = NoResponse]_vars

\* The list call has been made by a run whose last check was the one that
\* failed.
C16_Witness ==
    /\ pc[1] = "match"
    /\ calls[1] = <<[op |-> "list", ok |-> TRUE]>>
    /\ N >= 2
    /\ Len(checks_with_results[1]) = N * N
    /\ checks_with_results[1][N * N][2] = "Err"
    /\ \A k \in 1..(N * N - 1) : checks_with_results[1][k][2] = "Ok"

(***************************************************************************)
(* One run with the count of its queries: the specification of one run,    *)
(* with `sent` going up by one at each query sent.  The inventories are    *)
(* those no longer than the hard-coded one.                                *)
(***************************************************************************)
InitBudget ==
    /\ tracker \in RunTrackers
    /\ name_servers \in {inv \in Inventories : Len(inv) <= Len(get_name_servers)}
    /\ pc = [r \in Runs |-> IF r = 1 THEN "main" ELSE "idle"]
    /\ Idle

NextBudget ==
    \E r \in Runs :
        \/ Main(r) /\ UNCHANGED sent
        \/ PerformCheck(r) /\ UNCHANGED sent
        \/ SendQuery(r) /\ sent' = [sent EXCEPT ![r] = @ + 1]
        \/ QueryReturns(r) /\ UNCHANGED sent
        \/ Inspect(r) /\ UNCHANGED sent
        \/ Collect(r) /\ UNCHANGED sent
        \/ ListIssues(r) /\ UNCHANGED sent
        \/ ListIssuesFails(r) /\ UNCHANGED sent
        \/ CreateComment(r) /\ UNCHANGED sent
        \/ CreateIssue(r) /\ UNCHANGED sent

SpecBudget == InitBudget /\ [][NextBudget]_vars

\* The budget within a check: fresh at 2 when the check starts, 2 minus the
\* transport failures so far while it is queried, and 1 to 3 queries sent
\* when it has ended.
BudgetPerCheck(r) ==
    /\ (pc[r] = "query" /\ queries[r] = 0) => retries[r] = 2
    /\ (pc[r] \in {"query", "await"}) =>
          /\ retries[r] = 2 - errors[r]
          /\ retries[r] \in 0..2
    /\ (pc[r] \in {"map", "inspect"} /\ performed[r] # <<>>) =>
          /\ queries[r] \in 1..3
          /\ errors[r] <= queries[r]

\* C17 (as claimed): the budget is per check and only goes down, every check
\* sends 1 to 3 queries and then ends with an outcome, and a run that has
\* ended has an outcome for each of its N*N checks and has sent between N*N
\* and 3*N*N queries.
C17_RetryBudget ==
    \A r \in Runs :
        /\ BudgetPerCheck(r)
        /\ sent[r] <= 3 * N * N
        /\ Finished(r) =>
              /\ Len(checks_with_results[r]) = N * N
              /\ sent[r] >= N * N

\* What holds of C17 in the code: all of it for the runs that do not die in
\* perform_check.
C17_UnlessPanicked ==
    \A r \in Runs :
        /\ BudgetPerCheck(r)
        /\ sent[r] <= 3 * N * N
        /\ pc[r] \in {"exit_ok", "exit_err"} =>
              /\ Len(checks_with_results[r]) = N * N
              /\ sent[r] >= N * N

\* C18: the response perform_check looks at is the first one that came back
\* (every query before it failed in transport), and of its answer records
\* only the first counts: the result is Ok if that record is an A record
\* with the expected address and Err otherwise, be it of another type or
\* followed by a record that would match.
C18_FirstAnswerOnly ==
    [][\A r \in Runs :
          /\ (pc'[r] = "inspect" /\ pc[r] # "inspect") =>
                /\ response'[r].valid
                /\ ~response[r].valid
                /\ queries[r] = errors[r] + 1
                /\ errors'[r] = errors[r]
          /\ (pc[r] = "inspect" /\ response[r].answers # <<>>) =>
                /\ pc'[r] = "map"
                /\ checks_with_results'[r] =
                      Append(checks_with_results[r],
                             <<check[r], IF FirstAnswerMatches(r) THEN "Ok" ELSE "Err">>)]_vars

\* A response has come back whose first record is not an A record and whose
\* second record is an A record with the expected address.
C18_Witness ==
    /\ pc[1] = "inspect"
    /\ Len(response[1].answers) >= 2
    /\ response[1].answers[1].rtype # "A"
    /\ response[1].answers[2] = [rtype |-> "A", rdata |-> check[1].expected_ip]

\* The positions of the create-issue and create-comment calls of a run.
Mutations(r) ==
    {k \in 1..Len(calls[r]) : calls[r][k].op \in {"create_issue", "create_comment"}}

\* C19: a run makes at most one create-issue or create-comment call, and
\* that call is its second tracker call, right after its one list call,
\* which succeeded; a run that has ended well with `failed` set has made
\* exactly one; and the tracker holds one post for each create call that
\* succeeded, no more.
C19_OneMutationPerRun ==
    /\ \A r \in Runs :
          /\ calls[r] # <<>> =>
                /\ Cardinality(Mutations(r)) <= 1
                /\ Cardinality({k \in 1..Len(calls[r]) : calls[r][k].op = "list"}) <= 1
                /\ \A k \in Mutations(r) :
                      /\ k = 2
                      /\ calls[r][1] = [op |-> "list", ok |-> TRUE]
          /\ (pc[r] = "exit_ok" /\ failed[r]) =>
                /\ Cardinality(Mutations(r)) = 1
                /\ \A k \in 1..Len(calls[r]) : calls[r][k].ok
    /\ IF \A r \in Runs : Len(calls[r]) < 2
       THEN Posted(tracker) = 0
       ELSE Posted(tracker) =
               Cardinality({rk \in Runs \X (1..2) :
                               rk[2] \in Mutations(rk[1]) /\ calls[rk[1]][rk[2]].ok})

\* A failed run has ended with its list and its create-comment both
\* succeeded.
C19_Witness ==
    /\ pc[1] = "exit_ok"
    /\ failed[1]
    /\ Len(calls[1]) = 2
    /\ calls[1][1] = [op |-> "list", ok |-> TRUE]
    /\ calls[1][2].op = "create_comment"
    /\ calls[1][2].ok
    /\ Posted(tracker) = 1

====
